---- MODULE Spec2Model ----
(***************************************************************************)
(* Top-up review workflow of telegram_bot.py: the periodic Dispatcher      *)
(* (_notify_pending_topups), the On-Demand Lister (topups_cmd), the        *)
(* bootstrap command (start_cmd) and the Resolution Handler                *)
(* (topup_callback), with the shared SEEN_TOPUPS set and the admin state   *)
(* file.                                                                   *)
(*                                                                         *)
(* Text is modelled as a sequence of atoms (pieces of a Python str): an    *)
(* f-string is the concatenation of its pieces, ":" and "," are atoms of   *)
(* their own so that str.split works on the sequence, and "" is << >>.     *)
(* The handlers are coroutines on one event loop: a step of the model      *)
(* runs a coroutine from one await of a chat-transport send to the next    *)
(* (requests.post blocks the loop, so a fetch is not a yield point).       *)
(* The write of the admin state file is two steps, the open that empties   *)
(* the file and the dump that fills it, with no coroutine in between; the  *)
(* process can be stopped and started again at any point.                  *)
(***************************************************************************)
EXTENDS Integers, Sequences, FiniteSets, TLC

(* ------------------------------ bounds --------------------------------- *)
MaxRows == 2
MaxTicks == 2
MaxListerCalls == 1
MaxStarts == 1
MaxCallbacks == 2
MaxRestarts == 1

(* --------------------------- configuration ----------------------------- *)
BOT_ADMIN_USERNAME == "shtursunov7"

None == "None"

(* values BOT_API_KEY can have after os.getenv(...).strip() *)
ApiKeys == {"", "k"}

(* update.effective_user.username as the transport supplies it *)
Usernames == {None, "shtursunov7", "ShTursunov7", "mallory"}

(* (username or "").lower().strip() *)
LowerStrip(u) ==
    CASE u = None -> ""
      [] u = "ShTursunov7" -> "shtursunov7"
      [] OTHER -> u

(* update.effective_chat.id: private chats are positive, groups negative *)
ChatIds == {7, 0 - 100}

(* ------------------------------- rows ---------------------------------- *)
(* str(row.get("id", "")) of the rows the backend returns *)
RequestIds == {<< >>, <<"r1">>, <<"r2">>}

ReceiptNone == << >>
ReceiptPhoto == <<"data:image/", "png;base64", ",", "aGk=">>
ReceiptBroken == <<"data:image/", "png;base64", ",", "a">>
Receipts == {ReceiptNone, ReceiptPhoto, ReceiptBroken}

(* the rows the backend is taken to hold: a text row, a photo row, a row   *)
(* whose receipt does not decode, and a row without id                     *)
Rows ==
    {[id |-> <<"r1">>, receiptImage |-> ReceiptNone],
     [id |-> <<"r2">>, receiptImage |-> ReceiptPhoto],
     [id |-> <<"r2">>, receiptImage |-> ReceiptBroken],
     [id |-> << >>, receiptImage |-> ReceiptNone]}

RECURSIVE SeqsUpTo(_, _)
SeqsUpTo(S, n) ==
    IF n = 0 THEN {<< >>}
    ELSE LET shorter == SeqsUpTo(S, n - 1)
         IN  shorter \cup {Append(s, e) : s \in {t \in shorter : Len(t) = n - 1}, e \in S}

(* no call was made *)
NoResult == [kind |-> "none"]

(* what requests.post(.../api/bot/topup/pending).json() can give: it     *)
(* raises, or it returns a body whose "ok" is false (whatever else the    *)
(* body holds), or a body with "ok" and the pending rows                  *)
FetchResults ==
    {[kind |-> "exception"],
     [kind |-> "notok", rows |-> <<[id |-> <<"r1">>, receiptImage |-> ReceiptNone]>>]}
    \cup {[kind |-> "ok", rows |-> rs] : rs \in SeqsUpTo(Rows, MaxRows)}

(* receipt.startswith("data:image/") and "," in receipt *)
IsDataImage(receipt) ==
    /\ Len(receipt) > 0
    /\ receipt[1] = "data:image/"
    /\ \E i \in 1..Len(receipt) : receipt[i] = ","

(* receipt.split(",", 1)[1] *)
AfterComma(receipt) ==
    LET i == CHOOSE j \in 1..Len(receipt) :
                 /\ receipt[j] = ","
                 /\ \A k \in 1..(j - 1) : receipt[k] # ","
    IN  SubSeq(receipt, i + 1, Len(receipt))

(* base64.b64decode(b64) returns (TRUE) or raises binascii.Error (FALSE) *)
B64Decodes(b64) == b64 \in {<< >>, <<"aGk=">>}

RowIds(rows) == {rows[i].id : i \in 1..Len(rows)}

(* the ids of a list of rows that are not empty and not in sn, each once,  *)
(* in the order of the list                                                *)
RECURSIVE FreshIds(_, _)
FreshIds(rows, sn) ==
    IF rows = << >> THEN << >>
    ELSE IF Head(rows).id = << >> \/ Head(rows).id \in sn
    THEN FreshIds(Tail(rows), sn)
    ELSE <<Head(rows).id>> \o FreshIds(Tail(rows), sn \cup {Head(rows).id})

(* number of entries of a log that satisfy Test *)
CountLog(log, Test(_)) == Cardinality({i \in 1..Len(log) : Test(log[i])})

(* --------------------------- Admin Directory --------------------------- *)
(* An optional value is a sequence of length 0 (None / no file) or 1.      *)
NoFile == << >>
NoChat == << >>

(* the file as open(ADMIN_STATE_PATH, "w") leaves it: it exists and is empty *)
Truncated == <<[text |-> << >>]>>

_load_admin_chat_id_unchecked(file) ==
    IF file = NoFile THEN <<7>>
    ELSE IF file = Truncated THEN NoChat
    ELSE <<file[1].adminChatId>>

(* None when the file is absent, when json.load raises on it, or when *)
(* adminChatId is not positive                                        *)
_load_admin_chat_id(file) ==
    IF file = NoFile THEN NoChat
    ELSE IF file = Truncated THEN NoChat
    ELSE IF file[1].adminChatId > 0 THEN <<file[1].adminChatId>> ELSE NoChat

(* the file after json.dump and the close: it holds {"adminChatId": chat_id} *)
_save_admin_chat_id(chat_id) == <<[adminChatId |-> chat_id]>>

(* ------------------------------- state --------------------------------- *)
VARIABLES
    apiKey,         \* BOT_API_KEY
    adminFile,      \* content of bot_admin_state.json, NoFile when absent
    seen,           \* SEEN_TOPUPS
    dpc,            \* _notify_pending_topups: "idle" or "send" (awaiting a send)
    dChat,          \* chat_id of the running tick
    dRows,          \* rows of the running tick not yet finished, current row first
    dFetched,       \* history: ids of the rows fetched by the last tick
    dOrder,         \* history: the ids among them that were new at the fetch, in list order
    dSeenAtFetch,   \* history: SEEN_TOPUPS when the last tick fetched
    dListerMarked,  \* history: ids topups_cmd added while the last tick was running
    dLog,           \* history: send attempts of the last tick
    dLast,          \* history: how the last tick ended or where it is
    dResult,        \* history: what the fetch of the last tick gave ("none": no fetch)
    ticks,          \* number of ticks started
    listCalls,      \* number of calls of /api/bot/topup/pending
    attempts,       \* history: unsolicited notifications attempted, per request id
    hpc,            \* update handler: "idle", "l_send" or "l_fallback" (topups_cmd awaiting),
                    \* or "s_write" (start_cmd between open and json.dump)
    lRows,          \* rows of the running topups_cmd not yet finished, current row first
    lCount,         \* history: number of rows fetched by the last topups_cmd
    lLog,           \* history: row replies attempted by the last topups_cmd
    lReply,         \* history: the reply of the last topups_cmd that is not a row
    lLast,          \* history: how the last topups_cmd ended or where it is
    lUser,          \* history: tg_username of the last topups_cmd
    listerCalls,    \* number of topups_cmd calls
    rendered,       \* history: ids of the rows topups_cmd has rendered
    idleTicks,      \* history: number of ticks that ended at the chat_id check
    starts,         \* number of start_cmd calls
    boot,           \* tg_username and chat id of the running or last start_cmd
    restarts,       \* number of times the process was stopped and started again
    announced,      \* history: ids that earlier processes sent unsolicited notifications for
    callbacks,      \* number of button presses
    cb,             \* history: the last button press and what the handler did with it
    resolveCalls,   \* number of calls of /api/bot/topup/resolve
    failed,         \* history: tokens of the presses whose resolve call failed
    budget          \* how many of each operation this run explores

dvars == <<dpc, dChat, dRows, dFetched, dOrder, dSeenAtFetch, dListerMarked, dLog, dLast, dResult,
           ticks, idleTicks>>
lvars == <<lRows, lCount, lLog, lReply, lLast, lUser, listerCalls, rendered>>
cvars == <<callbacks, cb, resolveCalls, failed>>
rvars == <<restarts, announced>>
vars == <<budget, apiKey, adminFile, seen, dvars, listCalls, attempts, hpc, lvars, starts, boot,
          cvars, rvars>>

NoAttempts == [r \in RequestIds |-> 0]

(* The runs explored. Each run has a budget of operations: ticks with      *)
(* bootstrap commands and restarts, a tick interleaved with a Lister call, *)
(* Lister calls alone, button presses with bootstrap commands, and a       *)
(* button press interleaved with a tick.                                   *)
Budgets ==
    {[ticks |-> MaxTicks, lister |-> 0, starts |-> MaxStarts, callbacks |-> 0,
      restarts |-> MaxRestarts],
     [ticks |-> 1, lister |-> 1, starts |-> 0, callbacks |-> 0, restarts |-> 0],
     [ticks |-> 0, lister |-> MaxListerCalls, starts |-> 0, callbacks |-> 0, restarts |-> 0],
     [ticks |-> 0, lister |-> 0, starts |-> MaxStarts, callbacks |-> MaxCallbacks,
      restarts |-> 0],
     [ticks |-> 1, lister |-> 0, starts |-> 0, callbacks |-> 1, restarts |-> 0]}

Init ==
    /\ apiKey \in ApiKeys
    /\ adminFile \in {NoFile, _save_admin_chat_id(7)}
    /\ seen = {}
    /\ dpc = "idle"
    /\ dChat = NoChat
    /\ dRows = << >>
    /\ dFetched = {}
    /\ dOrder = << >>
    /\ dSeenAtFetch = {}
    /\ dListerMarked = {}
    /\ dLog = << >>
    /\ dLast = "none"
    /\ dResult = "none"
    /\ ticks = 0
    /\ listCalls = 0
    /\ attempts = NoAttempts
    /\ hpc = "idle"
    /\ lRows = << >>
    /\ lCount = 0
    /\ lLog = << >>
    /\ lReply = None
    /\ lLast = "none"
    /\ lUser = None
    /\ listerCalls = 0
    /\ starts = 0
    /\ boot = << >>
    /\ restarts = 0
    /\ announced = {}
    /\ rendered = {}
    /\ idleTicks = 0
    /\ callbacks = 0
    /\ cb = << >>
    /\ resolveCalls = 0
    /\ failed = {}
    /\ budget \in Budgets

(* start_cmd up to the open(ADMIN_STATE_PATH, "w") of _save_admin_chat_id, *)
(* which empties the file; for any other caller the whole handler          *)
start_cmd_any(caller, chat) ==
    /\ hpc = "idle"
    /\ starts < budget.starts
    /\ starts' = starts + 1
    /\ boot' = <<[user |-> LowerStrip(caller), chat |-> chat]>>
    /\ adminFile' = Truncated
    /\ hpc' = "s_write"
    /\ UNCHANGED <<budget, cvars, rvars, apiKey, seen, dvars, listCalls, attempts, lvars>>

start_cmd(caller, chat) ==
    /\ hpc = "idle"
    /\ starts < budget.starts
    /\ starts' = starts + 1
    /\ boot' = <<[user |-> LowerStrip(caller), chat |-> chat]>>
    /\ IF LowerStrip(caller) = BOT_ADMIN_USERNAME
       THEN /\ adminFile' = Truncated
            /\ hpc' = "s_write"
       ELSE UNCHANGED <<adminFile, hpc>>
    /\ UNCHANGED <<budget, cvars, rvars, apiKey, seen, dvars, listCalls, attempts, lvars>>

(* json.dump and the close of the file: the record is in the file. There  *)
(* is no await between the open and this step, so no other coroutine runs *)
(* before it.                                                              *)
SaveDump ==
    /\ hpc = "s_write"
    /\ adminFile' = _save_admin_chat_id(boot[1].chat)
    /\ hpc' = "idle"
    /\ UNCHANGED <<budget, cvars, rvars, apiKey, seen, dvars, listCalls, attempts, lvars,
                   starts, boot>>

(* SEEN_TOPUPS of a process that has just started *)
SeenAfterRestart_kept(sn) == sn

SeenAfterRestart(sn) == {}

(* The process is stopped, at any point, and started again: what it held   *)
(* in memory is gone, the environment and the admin state file are as they *)
(* were.                                                                   *)
Restart ==
    /\ restarts < budget.restarts
    /\ restarts' = restarts + 1
    /\ seen' = SeenAfterRestart(seen)
    /\ announced' = announced \cup {r \in RequestIds : attempts[r] > 0}
    /\ attempts' = NoAttempts
    /\ dpc' = "idle"
    /\ dChat' = NoChat
    /\ dRows' = << >>
    /\ dFetched' = {}
    /\ dOrder' = << >>
    /\ dSeenAtFetch' = {}
    /\ dListerMarked' = {}
    /\ dLog' = << >>
    /\ dLast' = "none"
    /\ dResult' = "none"
    /\ hpc' = "idle"
    /\ lRows' = << >>
    /\ lCount' = 0
    /\ lLog' = << >>
    /\ lReply' = None
    /\ lLast' = "none"
    /\ lUser' = None
    /\ rendered' = {}
    /\ cb' = << >>
    /\ failed' = {}
    /\ UNCHANGED <<budget, apiKey, adminFile, ticks, idleTicks, listCalls, listerCalls, starts,
                   boot, callbacks, resolveCalls>>

(* ------------------------ Notification Dispatcher ----------------------- *)
(* The rows loop of _notify_pending_topups from the row at the head of     *)
(* rows up to the next await: rows that are skipped, and rows whose        *)
(* receipt makes b64decode raise, are passed without yielding.             *)
(* if not rid or rid in SEEN_TOPUPS: continue *)
Skips_emptyOnly(rid, sn) == rid = << >>

Skips(rid, sn) == rid = << >> \/ rid \in sn

(* SEEN_TOPUPS.add(rid) *)
DMark_dropped(rid, sn) == sn

DMark(rid, sn) == sn \cup {rid}

RECURSIVE DAdvance(_, _, _, _)
DAdvance(rows, sn, log, att) ==
    IF rows = << >>
    THEN [pc |-> "idle", rows |-> << >>, seen |-> sn, log |-> log, att |-> att]
    ELSE LET row == Head(rows)
             rid == row.id
         IN  IF Skips(rid, sn)
             THEN DAdvance(Tail(rows), sn, log, att)
             ELSE LET sn2 == DMark(rid, sn)
                      att2 == [att EXCEPT ![rid] = @ + 1]
                  IN  IF IsDataImage(row.receiptImage)
                         /\ ~B64Decodes(AfterComma(row.receiptImage))
                      THEN DAdvance(Tail(rows), sn2,
                               Append(log, [id |-> rid, kind |-> "photo",
                                            outcome |-> "decode_error"]),
                               att2)
                      ELSE [pc |-> "send", rows |-> rows, seen |-> sn2,
                            log |-> log, att |-> att2]

(* the tick returns at "except Exception" or at "if not data.get('ok')" *)
FetchFailed_exceptionOnly(fetch) == fetch.kind = "exception"

FetchFailed(fetch) == fetch.kind # "ok"

(* the tick gets as far as the requests.post *)
TickFetches == apiKey # "" /\ _load_admin_chat_id(adminFile) # NoChat

(* first part of a tick: the guards, the fetch, and the loop up to the first await *)
NotifyTick(fetch) ==
    /\ dpc = "idle"
    /\ hpc # "s_write"
    /\ ticks < budget.ticks
    /\ ticks' = ticks + 1
    /\ dLog' = << >>
    /\ dListerMarked' = {}
    /\ dSeenAtFetch' = seen
    /\ dResult' = fetch.kind
    /\ UNCHANGED <<budget, cvars, rvars, apiKey, adminFile, hpc, lvars, starts, boot>>
    /\ LET chat_id == _load_admin_chat_id(adminFile)
       IN  IF apiKey = ""
           THEN /\ dLast' = "nokey"
                /\ dFetched' = {}
                /\ dOrder' = << >>
                /\ UNCHANGED <<seen, dpc, dChat, dRows, listCalls, attempts, idleTicks>>
           ELSE IF chat_id = NoChat
           THEN /\ dLast' = "nobinding"
                /\ dFetched' = {}
                /\ dOrder' = << >>
                /\ idleTicks' = idleTicks + 1
                /\ UNCHANGED <<seen, dpc, dChat, dRows, listCalls, attempts>>
           ELSE /\ listCalls' = listCalls + 1
                /\ idleTicks' = idleTicks
                /\ IF FetchFailed(fetch)
                   THEN /\ dLast' = fetch.kind
                        /\ dFetched' = {}
                        /\ dOrder' = << >>
                        /\ UNCHANGED <<seen, dpc, dChat, dRows, attempts>>
                   ELSE LET st == DAdvance(fetch.rows, seen, << >>, attempts)
                        IN  /\ dFetched' = RowIds(fetch.rows)
                            /\ dOrder' = FreshIds(fetch.rows, seen)
                            /\ dChat' = chat_id
                            /\ dpc' = st.pc
                            /\ dRows' = st.rows
                            /\ seen' = st.seen
                            /\ dLog' = st.log
                            /\ attempts' = st.att
                            /\ dLast' = IF st.pc = "idle" THEN "ok" ELSE "running"

(* the rows the loop goes on with after the awaited send: the except      *)
(* branch is "continue"                                                    *)
AfterSend_aborting(outcome, rest) == IF outcome = "fail" THEN << >> ELSE rest

AfterSend(outcome, rest) == rest

(* the awaited send_photo / send_message returns (ok) or raises (fail) *)
NotifySendDone(outcome) ==
    /\ dpc = "send"
    /\ hpc # "s_write"
    /\ LET row == Head(dRows)
           entry == [id |-> row.id,
                     kind |-> IF IsDataImage(row.receiptImage) THEN "photo" ELSE "text",
                     outcome |-> outcome]
           st == DAdvance(AfterSend(outcome, Tail(dRows)), seen, Append(dLog, entry),
                          attempts)
       IN  /\ dpc' = st.pc
           /\ dRows' = st.rows
           /\ seen' = st.seen
           /\ dLog' = st.log
           /\ attempts' = st.att
           /\ dLast' = IF st.pc = "idle" THEN "ok" ELSE "running"
    /\ UNCHANGED <<budget, cvars, apiKey, adminFile, dChat, dFetched, dOrder, dSeenAtFetch,
                   dListerMarked, dResult, ticks, idleTicks, listCalls, hpc, lvars,
                   starts, boot, rvars>>

(* --------------------------- On-Demand Lister --------------------------- *)
(* topups_cmd at the top of a loop iteration: SEEN_TOPUPS.add, then the    *)
(* try block up to its await; a receipt that b64decode rejects goes to     *)
(* the except branch's reply_text.                                          *)
LBegin(rows, log) ==
    IF rows = << >>
    THEN [pc |-> "idle", log |-> log, last |-> "done"]
    ELSE LET row == Head(rows)
         IN  IF IsDataImage(row.receiptImage) /\ ~B64Decodes(AfterComma(row.receiptImage))
             THEN [pc |-> "l_fallback",
                   log |-> Append(log, [id |-> row.id, kind |-> "photo",
                                        outcome |-> "decode_error"]),
                   last |-> "running"]
             ELSE [pc |-> "l_send", log |-> log, last |-> "running"]

(* SEEN_TOPUPS.add(str(row.get("id", ""))) for the row the loop is at *)
LMark_dropped(rows, sn) == sn

LMark(rows, sn) == IF rows = << >> THEN sn ELSE sn \cup {Head(rows).id}

(* the call gets as far as the requests.post *)
ListerFetches_keyOnly(caller) == apiKey # ""

ListerFetches(caller) == apiKey # "" /\ LowerStrip(caller) = BOT_ADMIN_USERNAME

topups_cmd(caller, fetch) ==
    /\ hpc = "idle"
    /\ listerCalls < budget.lister
    /\ listerCalls' = listerCalls + 1
    /\ lUser' = LowerStrip(caller)
    /\ lLog' = << >>
    /\ UNCHANGED <<budget, cvars, apiKey, adminFile, dpc, dChat, dRows, dFetched, dOrder,
                   dSeenAtFetch, dLog, dLast, dResult, ticks, idleTicks, attempts,
                   starts, boot, rvars>>
    /\ IF apiKey = ""
       THEN /\ lReply' = "BOT_API_KEY sozlanmagan."
            /\ lLast' = "nokey"
            /\ lCount' = 0
            /\ UNCHANGED <<seen, listCalls, hpc, lRows, dListerMarked, rendered>>
       ELSE IF ~ListerFetches(caller)
       THEN /\ lReply' = "Sizda ruxsat yo'q."
            /\ lLast' = "denied"
            /\ lCount' = 0
            /\ UNCHANGED <<seen, listCalls, hpc, lRows, dListerMarked, rendered>>
       ELSE /\ listCalls' = listCalls + 1
            /\ IF fetch.kind = "exception"
               THEN /\ lReply' = "Server xatosi"
                    /\ lLast' = "exception"
                    /\ lCount' = 0
                    /\ UNCHANGED <<seen, hpc, lRows, dListerMarked, rendered>>
               ELSE IF fetch.kind = "notok"
               THEN /\ lReply' = "Xatolik"
                    /\ lLast' = "notok"
                    /\ lCount' = 0
                    /\ UNCHANGED <<seen, hpc, lRows, dListerMarked, rendered>>
               ELSE IF Len(fetch.rows) = 0
               THEN /\ lReply' = "Pending chek yo'q."
                    /\ lLast' = "empty"
                    /\ lCount' = 0
                    /\ UNCHANGED <<seen, hpc, lRows, dListerMarked, rendered>>
               ELSE LET st == LBegin(fetch.rows, << >>)
                    IN  /\ lReply' = None
                        /\ lCount' = Len(fetch.rows)
                        /\ lRows' = fetch.rows
                        /\ seen' = LMark(fetch.rows, seen)
                        /\ rendered' = rendered \cup {Head(fetch.rows).id}
                        /\ dListerMarked' = IF dpc = "idle" THEN dListerMarked
                                            ELSE LMark(fetch.rows, dListerMarked)
                        /\ hpc' = st.pc
                        /\ lLog' = st.log
                        /\ lLast' = st.last

(* the loop goes on with the rows after the current one *)
LNext(log) ==
    LET rest == Tail(lRows)
        st == LBegin(rest, log)
    IN  /\ lRows' = rest
        /\ seen' = LMark(rest, seen)
        /\ rendered' = IF rest = << >> THEN rendered ELSE rendered \cup {Head(rest).id}
        /\ dListerMarked' = IF dpc = "idle" THEN dListerMarked
                            ELSE LMark(rest, dListerMarked)
        /\ hpc' = st.pc
        /\ lLog' = st.log
        /\ lLast' = st.last

LIndex == lCount - Len(lRows) + 1

(* the awaited reply_photo / reply_text of the try block returns or raises *)
ListerSendDone(outcome) ==
    /\ hpc = "l_send"
    /\ LET row == Head(lRows)
           entry == [idx |-> LIndex, id |-> row.id,
                     kind |-> IF IsDataImage(row.receiptImage) THEN "photo" ELSE "text",
                     outcome |-> outcome]
       IN  IF outcome = "ok"
           THEN LNext(Append(lLog, entry))
           ELSE /\ hpc' = "l_fallback"
                /\ lLog' = Append(lLog, entry)
                /\ UNCHANGED <<seen, lRows, lLast, dListerMarked, rendered>>
    /\ UNCHANGED <<budget, cvars, apiKey, adminFile, dpc, dChat, dRows, dFetched, dOrder,
                   dSeenAtFetch, dLog, dLast, dResult, ticks, idleTicks, listCalls,
                   attempts, lCount, lReply, lUser, listerCalls, starts, boot, rvars>>

(* the reply_text of the except branch returns, or raises out of topups_cmd *)
ListerFallbackDone(outcome) ==
    /\ hpc = "l_fallback"
    /\ LET row == Head(lRows)
           entry == [idx |-> LIndex, id |-> row.id, kind |-> "text", outcome |-> outcome]
       IN  IF outcome = "ok"
           THEN LNext(Append(lLog, entry))
           ELSE /\ hpc' = "idle"
                /\ lLog' = Append(lLog, entry)
                /\ lRows' = << >>
                /\ lLast' = "aborted"
                /\ UNCHANGED <<seen, dListerMarked, rendered>>
    /\ UNCHANGED <<budget, cvars, apiKey, adminFile, dpc, dChat, dRows, dFetched, dOrder,
                   dSeenAtFetch, dLog, dLast, dResult, ticks, idleTicks, listCalls,
                   attempts, lCount, lReply, lUser, listerCalls, starts, boot, rvars>>

(* -------------------------- Resolution Handler ------------------------- *)
(* query.data of a button press *)
CallbackTokens ==
    {<<"tp", ":", "approve", ":", "r1">>,
     <<"tp", ":", "reject", ":", "r1">>,
     <<"tp", ":", "approve", ":", "r1", ":", "x">>,
     <<"tp", ":", "approve">>,
     <<"xx", ":", "approve", ":", "r1">>,
     <<"tp", ":", "delete", ":", "r1">>}

(* ids of the rows whose buttons are pressed: str(row.get("id", "")) is   *)
(* any text, "r1" or "r1:x"                                               *)
ButtonIds == {<<"r1">>, <<"r1", ":", "x">>}

(* callback_data of the two buttons under the notification of row rid *)
Keyboard(rid) ==
    [approve |-> <<"tp", ":", "approve", ":">> \o rid,
     reject |-> <<"tp", ":", "reject", ":">> \o rid]

(* query.message: a photo with a caption, or a text message *)
Messages ==
    {[caption |-> <<"Topup request r1">>, text |-> << >>],
     [caption |-> << >>, text |-> <<"Topup request r1">>]}

(* what requests.post(.../api/bot/topup/resolve).json() can give: it raises, *)
(* or it returns a payload whose "message" and "request" may be missing      *)
ResolveResults ==
    {[kind |-> "exception", e |-> <<"timed out">>],
     [kind |-> "payload", ok |-> FALSE, message |-> << <<"already resolved">> >>,
      request |-> << >>],
     [kind |-> "payload", ok |-> FALSE, message |-> << >>, request |-> << >>],
     [kind |-> "payload", ok |-> TRUE, message |-> << >>,
      request |-> <<[status |-> <<"approved">>, username |-> <<"bob">>, vales |-> 100]>>],
     [kind |-> "payload", ok |-> TRUE, message |-> << >>, request |-> << >>]}

(* data.split(":") *)
RECURSIVE Split(_)
Split(s) ==
    IF \A i \in 1..Len(s) : s[i] # ":"
    THEN <<s>>
    ELSE LET i == CHOOSE j \in 1..Len(s) :
                      /\ s[j] = ":"
                      /\ \A k \in 1..(j - 1) : s[k] # ":"
         IN  <<SubSeq(s, 1, i - 1)>> \o Split(SubSeq(s, i + 1, Len(s)))

(* CallbackQueryHandler(topup_callback, pattern=r"^tp:(approve|reject):") *)
PatternMatches(data) ==
    /\ Len(data) >= 4
    /\ data[1] = "tp"
    /\ data[2] = ":"
    /\ data[3] \in {"approve", "reject"}
    /\ data[4] = ":"

(* str.upper() of one atom *)
UpperAtom(a) ==
    CASE a = "approved" -> "APPROVED"
      [] a = "rejected" -> "REJECTED"
      [] a = "approve" -> "APPROVE"
      [] a = "reject" -> "REJECT"
      [] a = "bob" -> "BOB"
      [] OTHER -> a

Upper(s) == [i \in 1..Len(s) |-> UpperAtom(s[i])]

(* tg_username != BOT_ADMIN_USERNAME *)
NotAdmin_unchecked(tg_username) == FALSE

NotAdmin(tg_username) == tg_username # BOT_ADMIN_USERNAME

(* the two early returns on the parsed token *)
TokenAccepted_anyArity(parts) ==
    /\ Len(parts) >= 3
    /\ parts[1] = <<"tp">>
    /\ parts[2] \in {<<"approve">>, <<"reject">>}

TokenAccepted(parts) ==
    /\ Len(parts) = 3
    /\ parts[1] = <<"tp">>
    /\ parts[2] \in {<<"approve">>, <<"reject">>}

(* payload.get("message", "Xatolik") *)
AlertText_generic(payload) == <<"Xatolik">>

AlertText(payload) ==
    IF payload.message = << >> THEN <<"Xatolik">> ELSE payload.message[1]

(* f"Topup {status.upper()} | {uname} | +{vales} vales" *)
ResultText_asGiven(status, uname, vales) ==
    <<"Topup ">> \o status \o <<" | ">> \o uname \o <<" | +">>
        \o <<ToString(vales)>> \o <<" vales">>

ResultText(status, uname, vales) ==
    <<"Topup ">> \o Upper(status) \o <<" | ">> \o uname \o <<" | +">>
        \o <<ToString(vales)>> \o <<" vales">>

(* the edit of the original message after a successful resolve *)
ResultEdit_replace(message, text) == [field |-> "text", content |-> text]

ResultEdit(message, text) ==
    IF message.caption # << >>
    THEN [field |-> "caption", content |-> message.caption \o <<"\n\n">> \o text]
    ELSE [field |-> "text", content |-> text]

Ack == [text |-> << >>, show_alert |-> FALSE]
Alert_quiet(text) == [text |-> text, show_alert |-> FALSE]

Alert(text) == [text |-> text, show_alert |-> TRUE]

(* the resolve calls of one run that gets as far as the requests.post:    *)
(* one post, in a try block without a loop                                 *)
ResolveCalls_retried(call, result) ==
    IF result.kind = "exception" THEN <<call, call>> ELSE <<call>>

ResolveCalls(call, result) == <<call>>

(* What one run of topup_callback does: the answers it gives to the query, *)
(* the resolve call it makes, the edit of the original message, and the    *)
(* terminal state of the Resolution Handler it ends in.                    *)
topup_callback(key, caller, data, message, result) ==
    LET tg_username == LowerStrip(caller)
        parts == Split(data)
    IN  IF key = ""
        THEN [answers |-> <<Ack>>, resolve |-> << >>, response |-> << >>,
              edit |-> <<[field |-> IF message.caption # << >> THEN "caption" ELSE "text",
                          content |-> <<"BOT_API_KEY sozlanmagan.">>]>>,
              state |-> "nokey"]
        ELSE IF NotAdmin(tg_username)
        THEN [answers |-> <<Ack, Alert(<<"Sizda ruxsat yo'q.">>)>>, resolve |-> << >>,
              response |-> << >>, edit |-> << >>, state |-> "denied"]
        ELSE IF ~TokenAccepted(parts)
        THEN [answers |-> <<Ack>>, resolve |-> << >>, response |-> << >>,
              edit |-> << >>, state |-> "ignored"]
        ELSE LET action == parts[2]
                 call == [actorTelegramUsername |-> tg_username, requestId |-> parts[3],
                          action |-> action, reason |-> "xato"]
             IN  IF result.kind = "exception"
                 THEN [answers |-> <<Ack, Alert(<<"Server xatosi: ">> \o result.e)>>,
                       resolve |-> ResolveCalls(call, result), response |-> <<result>>, edit |-> << >>,
                       state |-> "failed"]
                 ELSE IF ~result.ok
                 THEN [answers |-> <<Ack, Alert(AlertText(result))>>,
                       resolve |-> ResolveCalls(call, result), response |-> <<result>>, edit |-> << >>,
                       state |-> "failed"]
                 ELSE LET status == IF result.request = << >> THEN action
                                    ELSE result.request[1].status
                          uname == IF result.request = << >> THEN << >>
                                   ELSE result.request[1].username
                          vales == IF result.request = << >> THEN 0
                                   ELSE result.request[1].vales
                      IN  [answers |-> <<Ack>>, resolve |-> ResolveCalls(call, result),
                           response |-> <<result>>,
                           edit |-> <<ResultEdit(message, ResultText(status, uname, vales))>>,
                           state |-> "resolved"]

(* the press gets as far as the requests.post *)
Resolves(caller, data) ==
    /\ PatternMatches(data)
    /\ apiKey # ""
    /\ ~NotAdmin(LowerStrip(caller))
    /\ TokenAccepted(Split(data))

(* a button press arrives: the handler runs when the pattern matches *)
CallbackQuery(caller, data, message, result) ==
    /\ hpc = "idle"
    /\ callbacks < budget.callbacks
    /\ callbacks' = callbacks + 1
    /\ LET out == IF PatternMatches(data)
                  THEN topup_callback(apiKey, caller, data, message, result)
                  ELSE [answers |-> << >>, resolve |-> << >>, response |-> << >>,
                        edit |-> << >>, state |-> "unhandled"]
       IN  /\ cb' = <<[caller |-> caller, data |-> data, message |-> message,
                       again |-> data \in failed, out |-> out]>>
           /\ resolveCalls' = resolveCalls + Len(out.resolve)
           /\ failed' = IF out.state = "failed" THEN failed \cup {data} ELSE failed
    /\ UNCHANGED <<budget, apiKey, adminFile, seen, dvars, listCalls, attempts, hpc, lvars,
                   starts, boot, rvars>>

SendOutcomes == {"ok", "fail"}

Next ==
    \/ \E caller \in Usernames, chat \in ChatIds : start_cmd(caller, chat)
    \/ SaveDump
    \/ Restart
    \/ \E fetch \in (IF TickFetches THEN FetchResults ELSE {NoResult}) : NotifyTick(fetch)
    \/ \E outcome \in SendOutcomes : NotifySendDone(outcome)
    \/ \E caller \in Usernames :
          \E fetch \in (IF ListerFetches(caller) THEN FetchResults ELSE {NoResult}) :
              topups_cmd(caller, fetch)
    \/ \E outcome \in SendOutcomes : ListerSendDone(outcome)
    \/ \E outcome \in SendOutcomes : ListerFallbackDone(outcome)
    \/ \E caller \in Usernames, data \in CallbackTokens, message \in Messages :
          \E result \in (IF Resolves(caller, data) THEN ResolveResults ELSE {NoResult}) :
              CallbackQuery(caller, data, message, result)

Spec == Init /\ [][Next]_vars

(* ============================== properties ============================== *)
RealIds == RequestIds \ {<< >>}

(* send attempts and deliveries of the last tick for request id r *)
DAttempted(r) == CountLog(dLog, LAMBDA e : e.id = r)
DDelivered(r) == CountLog(dLog, LAMBDA e : e.id = r /\ e.outcome = "ok")
TickOver == dpc = "idle" /\ dLast = "ok"

(* C1: over the process lifetime the Dispatcher attempts at most one        *)
(* unsolicited notification for any request id, whatever the interleaving   *)
(* with the other handlers, the fetch results and the send failures.        *)
C1_AtMostOneUnsolicited == \A r \in RequestIds : attempts[r] <= 1

(* a second tick fetched an id that an earlier tick had announced, and skipped it *)
C1_Witness ==
    /\ ticks >= 2
    /\ TickOver
    /\ \E r \in RealIds :
           /\ r \in dFetched
           /\ r \in dSeenAtFetch
           /\ r \notin rendered
           /\ attempts[r] = 1
           /\ DAttempted(r) = 0

(* C2 as stated: every id that was never seen before the tick that first    *)
(* fetches it gets exactly one delivered notification in that tick.         *)
C2_ExactlyOneDelivered ==
    TickOver => \A r \in dFetched \cap RealIds :
                    r \notin dSeenAtFetch => DDelivered(r) = 1

(* C2 amended: a non-empty id that is not in SeenSet at the fetch and that  *)
(* the Lister does not mark during the tick is attempted exactly once in    *)
(* that tick, and delivered exactly when that one send succeeds; an id      *)
(* already in SeenSet at the fetch is not attempted again.                  *)
C2_FirstAppearance ==
    TickOver => \A r \in dFetched \cap RealIds :
                    /\ (r \notin dSeenAtFetch /\ r \notin dListerMarked)
                           => /\ DAttempted(r) = 1
                              /\ DDelivered(r) <= 1
                              /\ attempts[r] = 1
                    /\ r \in dSeenAtFetch => DAttempted(r) = 0
                    /\ DDelivered(r) <= DAttempted(r)

(* one tick delivered a fresh id and passed over an id seen before *)
C2_Witness ==
    /\ TickOver
    /\ \E r \in dFetched \cap RealIds :
           r \notin dSeenAtFetch /\ DAttempted(r) = 1 /\ DDelivered(r) = 1
    /\ \E q \in dFetched \cap RealIds : q \in dSeenAtFetch /\ DAttempted(q) = 0

(* replies of the last topups_cmd for the row at index i of its fetch *)
LAttempted(i) == CountLog(lLog, LAMBDA e : e.idx = i)
LDelivered(i) == CountLog(lLog, LAMBDA e : e.idx = i /\ e.outcome = "ok")
ListerOver == hpc = "idle" /\ lLast \in {"done", "aborted"}

(* C3: a reviewer's topups_cmd whose fetch succeeds renders every fetched   *)
(* row in its replies, none of them twice, whatever SeenSet held before.    *)
C3_EveryRowRendered ==
    ListerOver => \A i \in 1..lCount :
                      LAttempted(i) >= 1 /\ LDelivered(i) <= 1

(* C4: once topups_cmd has rendered the row with id r, no later step of the *)
(* Dispatcher sends an unsolicited notification for r.                      *)
C4_ListerSilencesDispatcher ==
    [][\A r \in RequestIds : r \in rendered => attempts'[r] = attempts[r]]_vars

(* a tick fetched an id that only the Lister had rendered, and sent nothing for it *)
C4_Witness ==
    /\ TickOver
    /\ \E r \in RealIds :
           /\ r \in rendered
           /\ r \in dFetched
           /\ r \in dSeenAtFetch
           /\ attempts[r] = 0

Pressed == cb # << >>
IsReviewer(caller) ==
    caller \in {"shtursunov7", "ShTursunov7"}
HasAlert(out) == \E i \in 1..Len(out.answers) : out.answers[i].show_alert

(* C5: a button press by anyone but the reviewer never calls the resolve    *)
(* endpoint, with or without an API key.                                    *)
C5_NonReviewerNeverResolves ==
    Pressed => (~IsReviewer(cb[1].caller) =>
                    cb[1].out.resolve = << >> /\ cb[1].out.response = << >>)

(* a stranger pressed a well-formed approve button while an API key is set *)
C5_Witness ==
    /\ Pressed
    /\ apiKey # ""
    /\ cb[1].caller = "mallory"
    /\ cb[1].data = <<"tp", ":", "approve", ":", "r1">>
    /\ resolveCalls = 0

(* the token is not "<tag>:<approve|reject>:<id>" *)
Malformed(data) ==
    LET fields == Split(data)
    IN  \/ Len(fields) # 3
        \/ fields[1] # <<"tp">>
        \/ fields[2] \notin {<<"approve">>, <<"reject">>}

Untouched(out) == out.resolve = << >> /\ out.edit = << >> /\ ~HasAlert(out)

(* C6 as stated: a malformed token has no effect, whoever presses and       *)
(* whatever the configuration.                                              *)
C6_MalformedAlwaysIgnored ==
    Pressed => (Malformed(cb[1].data) => Untouched(cb[1].out))

(* C6 amended: a malformed token causes no resolve call, no edit and no     *)
(* alert, and leaves SeenSet and the Admin Directory as they were, when the *)
(* reviewer presses with an API key configured, or when the token does not  *)
(* begin with tp:approve: or tp:reject: and so never reaches the handler.   *)
C6_MalformedIgnored ==
    [][(callbacks' = callbacks + 1 /\ Malformed(cb'[1].data)
        /\ (~PatternMatches(cb'[1].data) \/ (apiKey # "" /\ IsReviewer(cb'[1].caller))))
       => /\ Untouched(cb'[1].out)
          /\ resolveCalls' = resolveCalls
          /\ seen' = seen
          /\ adminFile' = adminFile]_vars

(* the reviewer pressed a button whose token has four fields, and nothing happened *)
C6_Witness ==
    /\ Pressed
    /\ apiKey # ""
    /\ IsReviewer(cb[1].caller)
    /\ cb[1].data = <<"tp", ":", "approve", ":", "r1", ":", "x">>
    /\ cb[1].out.answers = <<Ack>>
    /\ resolveCalls = 0

PermissionAlert == [text |-> <<"Sizda ruxsat yo'q.">>, show_alert |-> TRUE]

(* C7 as stated: a press by a non-reviewer, or with no API key configured,  *)
(* makes no backend call, shows a permission alert and leaves the message.  *)
C7_DeniedShowsAlert ==
    (Pressed /\ PatternMatches(cb[1].data))
        => ((~IsReviewer(cb[1].caller) \/ apiKey = "")
                => /\ cb[1].out.resolve = << >>
                   /\ cb[1].out.edit = << >>
                   /\ HasAlert(cb[1].out))

(* C7 amended: with an API key configured, a press by a non-reviewer makes  *)
(* no backend call, is answered with the permission alert and leaves the    *)
(* message; with no API key configured a press by anyone makes no backend   *)
(* call and shows no alert, and the caption of the message (its text when   *)
(* it has no caption) is replaced by the configuration error.               *)
C7_Denied ==
    (Pressed /\ PatternMatches(cb[1].data))
        => /\ (apiKey # "" /\ ~IsReviewer(cb[1].caller))
                  => /\ cb[1].out.resolve = << >>
                     /\ cb[1].out.edit = << >>
                     /\ cb[1].out.answers = <<Ack, PermissionAlert>>
           /\ apiKey = ""
                  => /\ cb[1].out.resolve = << >>
                     /\ ~HasAlert(cb[1].out)
                     /\ cb[1].out.edit =
                            <<[field |-> IF cb[1].message.caption # << >>
                                         THEN "caption" ELSE "text",
                               content |-> <<"BOT_API_KEY sozlanmagan.">>]>>

(* a user without username pressed reject while an API key is set, and was denied *)
C7_Witness ==
    /\ Pressed
    /\ apiKey # ""
    /\ cb[1].caller = None
    /\ cb[1].data = <<"tp", ":", "reject", ":", "r1">>
    /\ cb[1].out.state = "denied"

(* C8: when the resolve call fails, the press is answered with an alert     *)
(* that carries the error (the backend's message itself when ok=false       *)
(* comes with one), the message is not edited, and pressing the same        *)
(* button again calls resolve again.                                        *)
C8_FailedSurfaced ==
    Pressed =>
        /\ (cb[1].out.response # << >> /\ cb[1].out.response[1].kind = "exception")
               => /\ cb[1].out.edit = << >>
                  /\ cb[1].out.answers =
                         <<Ack, [text |-> <<"Server xatosi: ">> \o cb[1].out.response[1].e,
                                 show_alert |-> TRUE]>>
        /\ (cb[1].out.response # << >> /\ cb[1].out.response[1].kind = "payload"
                /\ ~cb[1].out.response[1].ok)
               => /\ cb[1].out.edit = << >>
                  /\ cb[1].out.answers =
                         <<Ack, [text |-> IF cb[1].out.response[1].message = << >>
                                          THEN <<"Xatolik">>
                                          ELSE cb[1].out.response[1].message[1],
                                 show_alert |-> TRUE]>>
        /\ (cb[1].again /\ apiKey # "" /\ IsReviewer(cb[1].caller))
               => /\ Len(cb[1].out.resolve) = 1
                  /\ <<"tp", ":">> \o cb[1].out.resolve[1].action \o <<":">>
                         \o cb[1].out.resolve[1].requestId = cb[1].data

(* the backend said "already resolved" to a second press of the same button *)
C8_Witness ==
    /\ Pressed
    /\ cb[1].again
    /\ resolveCalls = 2
    /\ cb[1].out.state = "failed"
    /\ cb[1].out.answers = <<Ack, [text |-> <<"already resolved">>, show_alert |-> TRUE]>>
    /\ cb[1].out.edit = << >>

ApprovedBob ==
    [kind |-> "payload", ok |-> TRUE, message |-> << >>,
     request |-> <<[status |-> <<"approved">>, username |-> <<"bob">>, vales |-> 100]>>]

Resolved(result) == Pressed /\ cb[1].out.response = <<result>>

(* C9 as stated: the result line is "APPROVED | bob | +100 vales".          *)
C9_ResultLineAsStated ==
    Resolved(ApprovedBob) =>
        /\ Len(cb[1].out.edit) = 1
        /\ cb[1].out.edit[1].content =
               (IF cb[1].message.caption # << >>
                THEN cb[1].message.caption \o <<"\n\n">> ELSE << >>)
               \o <<"APPROVED", " | ", "bob", " | +", "100", " vales">>

(* C9 amended: the result line is "Topup APPROVED | bob | +100 vales",      *)
(* appended after a blank line to the caption of a photo message and        *)
(* replacing the text of a text message; the edit is a function of the      *)
(* original message and the backend's answer only.                          *)
C9_ResultLine ==
    Resolved(ApprovedBob) =>
        /\ cb[1].out.answers = <<Ack>>
        /\ cb[1].out.edit =
               IF cb[1].message.caption # << >>
               THEN <<[field |-> "caption",
                       content |-> cb[1].message.caption
                                   \o <<"\n\n", "Topup ", "APPROVED", " | ", "bob",
                                        " | +", "100", " vales">>]>>
               ELSE <<[field |-> "text",
                       content |-> <<"Topup ", "APPROVED", " | ", "bob", " | +", "100",
                                     " vales">>]>>

(* the reviewer approved r1 on a photo notification and the caption got the result line *)
C9_Witness ==
    /\ Resolved(ApprovedBob)
    /\ cb[1].message.caption = <<"Topup request r1">>
    /\ cb[1].out.state = "resolved"
    /\ cb[1].out.edit[1].field = "caption"

(* C10: a tick that finds no admin state file makes no backend call, sends  *)
(* nothing and leaves SeenSet and the file as they were.                    *)
C10_TickWithoutBinding ==
    [][(ticks' = ticks + 1 /\ adminFile = NoFile)
       => /\ listCalls' = listCalls
          /\ seen' = seen
          /\ attempts' = attempts
          /\ adminFile' = adminFile
          /\ dpc' = "idle"
          /\ dLog' = << >>]_vars

(* a tick ran before the bootstrap command, and a tick after it announced a request *)
C10_Witness ==
    /\ idleTicks >= 1
    /\ starts >= 1
    /\ TickOver
    /\ \E r \in RealIds : attempts[r] = 1 /\ DDelivered(r) = 1

(* C11: a topups_cmd call made without an API key or by anyone but the    *)
(* reviewer is answered with one reply, the configuration error or the     *)
(* permission denial, and nothing else: it makes no backend call, renders  *)
(* no row and leaves SeenSet as it was; a reviewer's call whose fetch      *)
(* returns no rows is answered with the one reply "Pending chek yo'q.".    *)
C11_ListerRejects ==
    [][listerCalls' = listerCalls + 1
       => /\ (apiKey = "" \/ lUser' # BOT_ADMIN_USERNAME)
                 => /\ lReply' = IF apiKey = "" THEN "BOT_API_KEY sozlanmagan."
                                 ELSE "Sizda ruxsat yo'q."
                    /\ lLog' = << >>
                    /\ hpc' = "idle"
                    /\ listCalls' = listCalls
                    /\ seen' = seen
                    /\ rendered' = rendered
          /\ (apiKey # "" /\ lUser' = BOT_ADMIN_USERNAME)
                 => listCalls' = listCalls + 1
          /\ lLast' = "empty"
                 => /\ lReply' = "Pending chek yo'q."
                    /\ lLog' = << >>
                    /\ hpc' = "idle"
                    /\ seen' = seen]_vars

(* a stranger asked for the list after a tick had announced a request, and was denied *)
C11_Witness ==
    /\ listerCalls = 1
    /\ apiKey # ""
    /\ lUser = "mallory"
    /\ lLast = "denied"
    /\ lReply = "Sizda ruxsat yo'q."
    /\ seen # {}
    /\ listCalls = ticks

(* C12: a row whose data-URI receipt does not decode, or whose photo send  *)
(* raises, is then sent as a text message, by the Dispatcher and by         *)
(* topups_cmd alike: every photo attempt that did not succeed is followed   *)
(* by a text attempt for the same row.                                      *)
C12_PhotoFallsBackToText ==
    /\ TickOver
           => \A i \in 1..Len(dLog) :
                  (dLog[i].kind = "photo" /\ dLog[i].outcome # "ok")
                      => \E j \in (i + 1)..Len(dLog) :
                             dLog[j].id = dLog[i].id /\ dLog[j].kind = "text"
    /\ ListerOver
           => \A i \in 1..Len(lLog) :
                  (lLog[i].kind = "photo" /\ lLog[i].outcome # "ok")
                      => \E j \in (i + 1)..Len(lLog) :
                             lLog[j].idx = lLog[i].idx /\ lLog[j].kind = "text"

LogIds(log) == [i \in 1..Len(log) |-> log[i].id]

(* C13: in a tick the rows are attempted in the order of the fetched list;  *)
(* a send that raises, or a receipt that does not decode, does not end the  *)
(* tick: every later row whose id is not in SeenSet (and that topups_cmd    *)
(* does not mark meanwhile) is still attempted once, and the id of the row  *)
(* that failed stays in SeenSet and is not attempted a second time.         *)
C13_FailureDoesNotAbortTick ==
    /\ \A i \in 1..Len(dLog) : dLog[i].id \in seen /\ attempts[dLog[i].id] = 1
    /\ TickOver
           => /\ LogIds(dLog)
                     = SelectSeq(dOrder, LAMBDA r : \E i \in 1..Len(dLog) : dLog[i].id = r)
              /\ \A k \in 1..Len(dOrder) :
                     dOrder[k] \notin dListerMarked => DAttempted(dOrder[k]) = 1

(* a later tick fetched two announced ids again and attempted neither *)
C13_WitnessLaterTick ==
    /\ ticks = 2
    /\ TickOver
    /\ dFetched = {<<"r1">>, <<"r2">>}
    /\ dSeenAtFetch = {<<"r1">>, <<"r2">>}
    /\ dLog = << >>
    /\ attempts[<<"r1">>] = 1
    /\ attempts[<<"r2">>] = 1

(* in one tick the send for the first row raised and the second row was delivered *)
C13_Witness ==
    /\ TickOver
    /\ Len(dLog) = 2
    /\ dOrder = <<dLog[1].id, dLog[2].id>>
    /\ dLog[1].outcome = "fail"
    /\ dLog[2].outcome = "ok"
    /\ {dLog[1].id, dLog[2].id} \subseteq seen

(* C14: a tick whose fetch raises or returns ok=false sends nothing and    *)
(* changes neither SeenSet nor the admin state file nor the count of        *)
(* notifications, whatever the body holds; and the tick after it calls the  *)
(* backend again.                                                           *)
C14_FailedFetchIsNoOp ==
    [][ticks' = ticks + 1
       => /\ dResult' \in {"exception", "notok"}
                 => /\ listCalls' = listCalls + 1
                    /\ seen' = seen
                    /\ attempts' = attempts
                    /\ adminFile' = adminFile
                    /\ dpc' = "idle"
                    /\ dLog' = << >>
          /\ (dResult \in {"exception", "notok"} /\ apiKey # ""
                  /\ _load_admin_chat_id(adminFile) # NoChat)
                 => listCalls' = listCalls + 1]_vars

(* the first tick announced a request, the fetch of the second returned ok=false *)
C14_Witness ==
    /\ ticks = 2
    /\ listCalls = 2
    /\ dResult = "notok"
    /\ dpc = "idle"
    /\ dLog = << >>
    /\ seen # {}
    /\ \E r \in RealIds : attempts[r] = 1

(* C15: _save_admin_chat_id is atomic for _load_admin_chat_id: no get of   *)
(* a tick reads the file in the state in which a set that has begun and    *)
(* not finished leaves it, neither the old record nor the new one.         *)
C15_SetIsAtomic ==
    [][ticks' = ticks + 1 => adminFile # Truncated]_vars

(* C16: the admin state file changes only in a start_cmd of the reviewer,  *)
(* which leaves in it the id of the chat the command came from; a          *)
(* start_cmd of anyone else writes nothing, and no tick, topups_cmd or     *)
(* button press changes the file.                                          *)
C16_OnlyReviewerBootstrapWrites ==
    [][/\ adminFile' # adminFile
              => \/ starts' = starts + 1 /\ boot'[1].user = BOT_ADMIN_USERNAME
                 \/ hpc = "s_write" /\ boot[1].user = BOT_ADMIN_USERNAME
       /\ (hpc = "s_write" /\ restarts' = restarts)
              => adminFile' = <<[adminChatId |-> boot[1].chat]>>
       /\ (starts' = starts + 1 /\ boot'[1].user = BOT_ADMIN_USERNAME)
              => hpc' = "s_write"
       /\ (starts' = starts + 1 /\ boot'[1].user # BOT_ADMIN_USERNAME)
              => adminFile' = adminFile /\ hpc' = "idle"]_vars

(* a tick found no file, the reviewer sent /start from chat 7, and the next *)
(* tick found the binding to chat 7                                         *)
C16_Witness ==
    /\ boot = <<[user |-> BOT_ADMIN_USERNAME, chat |-> 7]>>
    /\ adminFile = <<[adminChatId |-> 7]>>
    /\ hpc = "idle"
    /\ idleTicks = 1
    /\ ticks = 2
    /\ dChat = <<7>>

C18_RestartReannouncesOnce ==
    [][/\ restarts' = restarts + 1
              => /\ seen' = {}
                 /\ adminFile' = adminFile
       /\ (restarts' >= 1 /\ dpc' = "idle" /\ dLast' = "ok")
              => \A r \in dFetched' \cap RealIds :
                     /\ attempts'[r] <= 1
                     /\ CountLog(dLog', LAMBDA e : e.id = r)
                            = IF r \in dSeenAtFetch' THEN 0 ELSE 1
                     /\ r \notin dSeenAtFetch' => attempts'[r] = 1]_vars

(* a request announced before the restart was announced and delivered again *)
(* by a tick of the new process                                             *)
C18_Witness ==
    /\ restarts = 1
    /\ TickOver
    /\ \E r \in announced :
           /\ r \in dFetched
           /\ r \notin dSeenAtFetch
           /\ attempts[r] = 1
           /\ DDelivered(r) = 1

(* the reviewer's last start_cmd has written its record *)
Stored(c) ==
    /\ boot = <<[user |-> BOT_ADMIN_USERNAME, chat |-> c]>>
    /\ hpc = "idle"
    /\ adminFile = <<[adminChatId |-> c]>>

(* C19: once the reviewer's start_cmd has stored the chat id c, whatever   *)
(* chat it came from, _load_admin_chat_id returns c and not None, so that  *)
(* the next tick sends to chat c.                                          *)
C19_DirectoryRoundTrip ==
    \A c \in ChatIds : Stored(c) => _load_admin_chat_id(adminFile) = <<c>>

(* C20: when the reviewer, with an API key configured, presses the approve *)
(* (reject) button that was rendered for the row with id rid, the handler  *)
(* makes one resolve call with requestId rid and action approve (reject);  *)
(* and no resolve call has another action.                                 *)
C20_TokenRoundTrip ==
    Pressed =>
        /\ \A rid \in ButtonIds : \A a \in {"approve", "reject"} :
               (cb[1].data = Keyboard(rid)[a] /\ IsReviewer(cb[1].caller) /\ apiKey # "")
                   => /\ Len(cb[1].out.resolve) = 1
                      /\ cb[1].out.resolve[1].requestId = rid
                      /\ cb[1].out.resolve[1].action = <<a>>
        /\ \A i \in 1..Len(cb[1].out.resolve) :
               cb[1].out.resolve[i].action \in {<<"approve">>, <<"reject">>}

====
